---- MODULE Spec2Model ----
(***************************************************************************)
(* Forward-mode automatic differentiation with dual numbers (src/main.rs). *)
(*                                                                         *)
(* The program is a set of pure operations on the value type Dual {x, dx}. *)
(* The model chains them the way main() does: a seed u is constructed,     *)
(* each step applies one operation of the algebra to the latest result,    *)
(* and the result becomes the operand of the next step.                    *)
(*                                                                         *)
(* Numbers.  An f64 is modelled as a record [k, n, d]:                     *)
(*   k = "fin"  the rational n/d in lowest terms, d >= 1;                  *)
(*   k = "inf"  an IEEE infinity of sign n;  k = "nan"  IEEE NaN;          *)
(*   k = "out"  a value outside the window the model computes in           *)
(*              (numerator or denominator above MaxMag).  A step whose     *)
(*              evaluation produces "out" anywhere is not explored.        *)
(* Inside the window +, -, *, / are exact (no rounding), zero is unsigned, *)
(* and the library functions exp, ln, sin, cos, tan return a low-order     *)
(* series approximant rounded to the nearest multiple of 1/Grid, as a      *)
(* reduced-precision stand-in for the platform's libm.                     *)
(***************************************************************************)
EXTENDS Integers, Sequences, FiniteSets, TLC

VARIABLES u, u2, self, rhs, scalar, expn, res, res2, plain, hist,
          panicked, overflow_checks

vars == <<u, u2, self, rhs, scalar, expn, res, res2, plain, hist,
          panicked, overflow_checks>>

(* ------------------------------ bounds -------------------------------- *)

\* Number of chained operations explored.
MaxSteps == 2

\* Window of exact arithmetic: |numerator| and denominator at most MaxMag.
MaxMag == 200

\* Library functions return multiples of 1/Grid.
Grid == 8

\* Ordinary exponents tried for powi are -MaxExp..MaxExp.
MaxExp == 2

(* ------------------------- i32 (powi's exponent) ---------------------- *)

I32_MAX == 2147483647

I32_MIN == -I32_MAX - 1

(* ------------------------------ f64 ----------------------------------- *)

Abs(i) == IF i < 0 THEN -i ELSE i

RECURSIVE Gcd(_, _)
Gcd(a, b) == IF b = 0 THEN a ELSE Gcd(b, a % b)

NaN == [k |-> "nan", n |-> 0, d |-> 0]

Out == [k |-> "out", n |-> 0, d |-> 0]

Inf(s) == [k |-> "inf", n |-> s, d |-> 0]

\* The f64 nearest to num/den (den > 0): exact inside the window.
Norm(num, den) ==
    LET g == Gcd(Abs(num), den)
        p == num \div g
        q == den \div g
    IN  IF Abs(p) > MaxMag \/ q > MaxMag THEN Out
        ELSE [k |-> "fin", n |-> p, d |-> q]

F(num, den) == Norm(num, den)

Zero == [k |-> "fin", n |-> 0, d |-> 1]

One == [k |-> "fin", n |-> 1, d |-> 1]

Sgn(a) == IF a.n > 0 THEN 1 ELSE IF a.n < 0 THEN -1 ELSE 0

IsFin(a) == a.k = "fin"

IsZero(a) == a.k = "fin" /\ a.n = 0

\* -a
fneg(a) ==
    CASE a.k = "out" -> Out
      [] a.k = "nan" -> NaN
      [] a.k = "inf" -> Inf(-a.n)
      [] OTHER       -> [k |-> "fin", n |-> -a.n, d |-> a.d]

\* a + b
fadd(a, b) ==
    CASE a.k = "out" \/ b.k = "out" -> Out
      [] a.k = "nan" \/ b.k = "nan" -> NaN
      [] a.k = "inf" /\ b.k = "inf" -> IF a.n = b.n THEN a ELSE NaN
      [] a.k = "inf" -> a
      [] b.k = "inf" -> b
      [] OTHER -> Norm(a.n * b.d + b.n * a.d, a.d * b.d)

\* a - b
fsub(a, b) == fadd(a, fneg(b))

\* a * b
fmul(a, b) ==
    CASE a.k = "out" \/ b.k = "out" -> Out
      [] a.k = "nan" \/ b.k = "nan" -> NaN
      [] a.k = "inf" \/ b.k = "inf" ->
            IF Sgn(a) = 0 \/ Sgn(b) = 0 THEN NaN ELSE Inf(Sgn(a) * Sgn(b))
      [] OTHER -> Norm(a.n * b.n, a.d * b.d)

\* a / b
fdiv(a, b) ==
    CASE a.k = "out" \/ b.k = "out" -> Out
      [] a.k = "nan" \/ b.k = "nan" -> NaN
      [] a.k = "inf" /\ b.k = "inf" -> NaN
      [] a.k = "inf" -> Inf(IF Sgn(b) < 0 THEN -a.n ELSE a.n)
      [] b.k = "inf" -> Zero
      [] b.n = 0 -> IF a.n = 0 THEN NaN ELSE Inf(Sgn(a))
      [] OTHER -> Norm(a.n * b.d * Sgn(b), a.d * Abs(b.n))

\* n as f64 * a, for an i32 n.
fmul_i32(i, a) ==
    CASE a.k = "out" -> Out
      [] a.k = "nan" -> NaN
      [] a.k = "inf" -> IF i = 0 THEN NaN
                        ELSE Inf(IF i < 0 THEN -a.n ELSE a.n)
      [] a.n = 0 \/ i = 0 -> Zero
      [] i > MaxMag \/ i < -MaxMag -> Out
      [] OTHER -> Norm(i * a.n, a.d)

\* The multiple of 1/Grid nearest to num/den (den > 0).
RoundGrid(num, den) == Norm((2 * num * Grid + den) \div (2 * den), Grid)

\* f64::exp: 1 + q + q^2/2 for q >= 0 and its reciprocal at -q.
fexp(a) ==
    CASE a.k = "out" -> Out
      [] a.k = "nan" -> NaN
      [] a.k = "inf" -> IF a.n > 0 THEN a ELSE Zero
      [] OTHER ->
            LET m == Abs(a.n)
                t == 2 * a.d * a.d + 2 * m * a.d + m * m
                b == 2 * a.d * a.d
            IN  IF a.n >= 0 THEN RoundGrid(t, b) ELSE RoundGrid(b, t)

\* f64::ln: 2z with z = (q - 1)/(q + 1); -inf at 0, NaN below 0.
fln(a) ==
    CASE a.k = "out" -> Out
      [] a.k = "nan" -> NaN
      [] a.k = "inf" -> IF a.n > 0 THEN a ELSE NaN
      [] a.n < 0 -> NaN
      [] a.n = 0 -> Inf(-1)
      [] OTHER -> RoundGrid(2 * (a.n - a.d), a.n + a.d)

\* f64::sin: q - q^3/6.
fsin(a) ==
    CASE a.k = "out" -> Out
      [] a.k = "nan" \/ a.k = "inf" -> NaN
      [] OTHER -> RoundGrid(6 * a.n * a.d * a.d - a.n * a.n * a.n,
                            6 * a.d * a.d * a.d)

\* f64::cos: 1 - q^2/2.
fcos(a) ==
    CASE a.k = "out" -> Out
      [] a.k = "nan" \/ a.k = "inf" -> NaN
      [] OTHER -> RoundGrid(2 * a.d * a.d - a.n * a.n, 2 * a.d * a.d)

\* f64::tan: q + q^3/3.
ftan(a) ==
    CASE a.k = "out" -> Out
      [] a.k = "nan" \/ a.k = "inf" -> NaN
      [] OTHER -> RoundGrid(3 * a.n * a.d * a.d + a.n * a.n * a.n,
                            3 * a.d * a.d * a.d)

RECURSIVE IntPow(_, _)
IntPow(b, e) == IF e = 0 THEN 1 ELSE b * IntPow(b, e - 1)

\* f64::powi.  Exponents up to MaxExp + 1 in magnitude are computed exactly;
\* the only larger ones the model uses lie within 1 of i32::MIN and i32::MAX,
\* where every window value other than 0, 1, -1 overflows to an infinity or
\* underflows to zero.
fpowi(a, e) ==
    LET odd == (e % 2) = 1
        neg == a.n < 0 /\ odd
    IN  CASE a.k = "out" -> Out
          [] e = 0 -> One
          [] a.k = "nan" -> NaN
          [] a.k = "inf" -> IF e > 0 THEN Inf(IF neg THEN -1 ELSE 1) ELSE Zero
          [] a.n = 0 -> IF e > 0 THEN Zero ELSE Inf(1)
          [] Abs(a.n) = a.d -> F(IF neg THEN -1 ELSE 1, 1)
          [] e > 0 /\ e <= MaxExp + 1 ->
                Norm(IntPow(a.n, e), IntPow(a.d, e))
          [] e < 0 /\ e >= -(MaxExp + 1) ->
                Norm(IntPow(a.d, -e) * (IF neg THEN -1 ELSE 1),
                     IntPow(Abs(a.n), -e))
          [] OTHER ->
                IF (Abs(a.n) > a.d) = (e > 0)
                THEN Inf(IF neg THEN -1 ELSE 1)
                ELSE Zero

(* ------------------------- i32 arithmetic ----------------------------- *)

\* Whether the i32 subtraction n - 1 leaves the i32 range.
i32_sub1_overflows(e) == e = I32_MIN

\* n - 1 as a build without overflow checks computes it (two's complement).
i32_wrapping_sub1(e) == IF e = I32_MIN THEN I32_MAX ELSE e - 1

(* ------------------------------ Dual ---------------------------------- *)

Dual(xv, dxv) == [x |-> xv, dx |-> dxv]

\* impl Neg for Dual
neg(a) == Dual(fneg(a.x), fneg(a.dx))

\* impl Add for Dual
add(a, b) == Dual(fadd(a.x, b.x), fadd(a.dx, b.dx))

\* sub with the tangent of the right operand read in place of its value.
sub_reads_tangent(a, b) == Dual(fsub(a.x, b.dx), fsub(a.dx, b.dx))

\* impl Sub for Dual
sub(a, b) == Dual(fsub(a.x, b.x), fsub(a.dx, b.dx))

\* mul with the second term of the product rule reading rhs.dx for rhs.x.
mul_wrong_term(a, b) ==
    Dual(fmul(a.x, b.x), fadd(fmul(a.x, b.dx), fmul(a.dx, b.dx)))

\* impl Mul for Dual
mul(a, b) == Dual(fmul(a.x, b.x), fadd(fmul(a.x, b.dx), fmul(a.dx, b.x)))

\* impl Div for Dual
div(a, b) ==
    Dual(fdiv(a.x, b.x),
         fdiv(fsub(fmul(a.dx, b.x), fmul(a.x, b.dx)), fmul(b.x, b.x)))

\* add with the scalar added to the tangent as well.
add_f64_both(a, c) == Dual(fadd(a.x, c), fadd(a.dx, c))

\* impl Add<f64> for Dual
add_f64(a, c) == Dual(fadd(a.x, c), a.dx)

\* impl Sub<f64> for Dual
sub_f64(a, c) == Dual(fsub(a.x, c), a.dx)

\* impl Mul<f64> for Dual
mul_f64(a, c) == Dual(fmul(a.x, c), fmul(a.dx, c))

\* impl Div<f64> for Dual
div_f64(a, c) == Dual(fdiv(a.x, c), fdiv(a.dx, c))

\* impl Div<Dual> for f64
f64_div(c, a) ==
    Dual(fdiv(c, a.x), fdiv(fneg(fmul(c, a.dx)), fmul(a.x, a.x)))

\* Ops::exp
exp(a) == Dual(fexp(a.x), fmul(a.x, fexp(a.dx)))

\* Ops::ln
ln(a) == Dual(fln(a.x), fdiv(a.dx, a.x))

\* sin without the incoming tangent (no chain rule).
sin_no_chain(a) == Dual(fsin(a.x), fcos(a.x))

\* Ops::sin
sin(a) == Dual(fsin(a.x), fmul(fcos(a.x), a.dx))

\* cos with the sign of the derivative lost.
cos_no_sign(a) == Dual(fcos(a.x), fmul(fsin(a.x), a.dx))

\* Ops::cos
cos(a) == Dual(fcos(a.x), fmul(fneg(fsin(a.x)), a.dx))

\* Ops::tan
tan(a) ==
    LET t == ftan(a.x)
    IN  Dual(t, fmul(a.dx, fadd(fmul(t, t), One)))

\* Ops::powi, once n - 1 has been computed without a panic.
powi(a, e) ==
    Dual(fpowi(a.x, e),
         fmul(fmul_i32(e, fpowi(a.x, i32_wrapping_sub1(e))), a.dx))

\* Sigmoid::sigmoid
sigmoid(a) == f64_div(One, add_f64(exp(neg(a)), One))

\* The same formula on a plain f64.
sigmoid_f64(v) == fdiv(One, fadd(fexp(fneg(v)), One))

(* --------------------------- inputs ----------------------------------- *)

SeedValues == {F(-1, 1), F(0, 1), F(1, 2), F(1, 1), F(2, 1), F(3, 1)}

SeedTangents == {F(0, 1), F(1, 1)}

\* Tangents of the second run, which shares the first run's values.
ShadowTangents == {F(0, 1), F(2, 1)}

\* Constant dual operands (besides the seed itself).
ConstDuals == {Dual(F(3, 1), F(0, 1))}

Scalars == {F(0, 1), F(5, 1)}

Exponents == (-MaxExp .. MaxExp) \cup {I32_MIN, I32_MAX}

NoDual == Dual(Zero, Zero)

Rep(a) == a.x.k # "out" /\ a.dx.k # "out"

(* ----------------------------- machine -------------------------------- *)

\* main: let u = Dual { x, dx }; the build either checks integer overflow
\* (debug profile) or wraps (release profile).
Init ==
    /\ u \in {Dual(xv, dxv) : xv \in SeedValues, dxv \in SeedTangents}
    /\ u2 \in {Dual(u.x, t) : t \in ShadowTangents}
    /\ self = u
    /\ res = u
    /\ res2 = u2
    /\ plain = u.x
    /\ rhs = NoDual
    /\ scalar = Zero
    /\ expn = 0
    /\ hist = <<>>
    /\ panicked = FALSE
    /\ overflow_checks \in BOOLEAN

\* A call can be made: the program has not panicked (and the explored chain
\* is not yet MaxSteps long).
Running == ~panicked /\ Len(hist) < MaxSteps

\* One call: the latest result is consumed as `self`, the call's result
\* replaces it; the second run and the plain-number run take the same call.
Step(tag, r1, r2, p, b, c, e) ==
    /\ Rep(r1) /\ Rep(r2) /\ p.k # "out"
    /\ self' = res
    /\ res' = r1
    /\ res2' = r2
    /\ plain' = p
    /\ rhs' = b
    /\ scalar' = c
    /\ expn' = e
    /\ hist' = Append(hist, tag)
    /\ UNCHANGED <<u, u2, panicked, overflow_checks>>

Neg ==
    /\ Running
    /\ Step("neg", neg(res), neg(res2), fneg(plain), NoDual, Zero, 0)

Exp ==
    /\ Running
    /\ Step("exp", exp(res), exp(res2), fexp(plain), NoDual, Zero, 0)

Ln ==
    /\ Running
    /\ Step("ln", ln(res), ln(res2), fln(plain), NoDual, Zero, 0)

Sin ==
    /\ Running
    /\ Step("sin", sin(res), sin(res2), fsin(plain), NoDual, Zero, 0)

Cos ==
    /\ Running
    /\ Step("cos", cos(res), cos(res2), fcos(plain), NoDual, Zero, 0)

Tan ==
    /\ Running
    /\ Step("tan", tan(res), tan(res2), ftan(plain), NoDual, Zero, 0)

Sigmoid ==
    /\ Running
    /\ Step("sigmoid", sigmoid(res), sigmoid(res2), sigmoid_f64(plain),
            NoDual, Zero, 0)

\* powi: n - 1 overflows for n = i32::MIN; with overflow checks the call
\* panics, without them the subtraction wraps.
Powi ==
    \E e \in Exponents :
        \/ /\ Running
           /\ overflow_checks /\ i32_sub1_overflows(e)
           /\ panicked' = TRUE
           /\ self' = res
           /\ expn' = e
           /\ hist' = Append(hist, "powi")
           /\ UNCHANGED <<u, u2, res, res2, plain, rhs, scalar,
                          overflow_checks>>
        \/ /\ Running
           /\ ~(overflow_checks /\ i32_sub1_overflows(e))
           /\ Step("powi", powi(res, e), powi(res2, e), fpowi(plain, e),
                   NoDual, Zero, e)

\* The right operand is the seed (a copy of u) or a constant dual; the
\* second run's operand has the same value and its own tangent.
Operands ==
    {<<u, u2>>} \cup
    {<<b, Dual(b.x, t)>> : b \in ConstDuals, t \in ShadowTangents}

Add ==
    \E o \in Operands :
        /\ Running
        /\ Step("add", add(res, o[1]), add(res2, o[2]), fadd(plain, o[1].x),
                o[1], Zero, 0)

Sub ==
    \E o \in Operands :
        /\ Running
        /\ Step("sub", sub(res, o[1]), sub(res2, o[2]), fsub(plain, o[1].x),
                o[1], Zero, 0)

Mul ==
    \E o \in Operands :
        /\ Running
        /\ Step("mul", mul(res, o[1]), mul(res2, o[2]), fmul(plain, o[1].x),
                o[1], Zero, 0)

Div ==
    \E o \in Operands :
        /\ Running
        /\ Step("div", div(res, o[1]), div(res2, o[2]), fdiv(plain, o[1].x),
                o[1], Zero, 0)

AddF64 ==
    \E c \in Scalars :
        /\ Running
        /\ Step("add_f64", add_f64(res, c), add_f64(res2, c), fadd(plain, c),
                NoDual, c, 0)

SubF64 ==
    \E c \in Scalars :
        /\ Running
        /\ Step("sub_f64", sub_f64(res, c), sub_f64(res2, c), fsub(plain, c),
                NoDual, c, 0)

MulF64 ==
    \E c \in Scalars :
        /\ Running
        /\ Step("mul_f64", mul_f64(res, c), mul_f64(res2, c), fmul(plain, c),
                NoDual, c, 0)

DivF64 ==
    \E c \in Scalars :
        /\ Running
        /\ Step("div_f64", div_f64(res, c), div_f64(res2, c), fdiv(plain, c),
                NoDual, c, 0)

F64Div ==
    \E c \in Scalars :
        /\ Running
        /\ Step("f64_div", f64_div(c, res), f64_div(c, res2), fdiv(c, plain),
                NoDual, c, 0)

Next ==
    \/ Neg \/ Add \/ Sub \/ Mul \/ Div
    \/ AddF64 \/ SubF64 \/ MulF64 \/ DivF64 \/ F64Div
    \/ Exp \/ Ln \/ Sin \/ Cos \/ Tan \/ Powi
    \/ Sigmoid

Spec == Init /\ [][Next]_vars

(* ------------------------------ claims -------------------------------- *)

\* The call that produced the current state ("none" before the first call).
Last == IF hist = <<>> THEN "none" ELSE hist[Len(hist)]

\* The last call returned (it did not panic).
Returned(tag) == Last = tag /\ ~panicked

FinDual(a) == IsFin(a.x) /\ IsFin(a.dx)

InWin(v) == v.k # "out"

\* C1: exp(a) returns value e^x and tangent e^x * dx.
C1_ExpRule ==
    Returned("exp") =>
        res = Dual(fexp(self.x), fmul(fexp(self.x), self.dx))

\* C2: seeding (x, 1) through sigmoid yields value s = 1/(e^(-x) + 1) and
\* tangent s * (1 - s), for every real x.
C2_SigmoidDerivative ==
    (Returned("sigmoid") /\ IsFin(self.x) /\ self.dx = One) =>
        LET s == fdiv(One, fadd(fexp(fneg(self.x)), One))
            t == fmul(s, fsub(One, s))
        IN  InWin(t) => res = Dual(s, t)

\* C3: no core operation panics, for any operands and any i32 exponent.
C3_NeverPanics == ~panicked

\* C4: a * b = (x*y, dx*y + x*dy); for y # 0, a / b = (x/y, (dx*y - x*dy)/y^2);
\* (2,1) * (3,0) = (6,3) and (2,1) / (3,0) = (2/3, 1/3).
C4_ProductQuotientRule ==
    /\ Returned("mul") =>
          /\ res = Dual(fmul(self.x, rhs.x),
                        fadd(fmul(self.dx, rhs.x), fmul(self.x, rhs.dx)))
          /\ (self = Dual(F(2, 1), One) /\ rhs = Dual(F(3, 1), Zero))
                => res = Dual(F(6, 1), F(3, 1))
    /\ (Returned("div") /\ ~IsZero(rhs.x)) =>
          /\ res = Dual(fdiv(self.x, rhs.x),
                        fdiv(fsub(fmul(self.dx, rhs.x), fmul(self.x, rhs.dx)),
                             fmul(rhs.x, rhs.x)))
          /\ (self = Dual(F(2, 1), One) /\ rhs = Dual(F(3, 1), Zero))
                => res = Dual(F(2, 3), F(1, 3))

C4_Witness ==
    /\ Returned("div")
    /\ self = Dual(F(2, 1), One)
    /\ rhs = Dual(F(3, 1), Zero)
    /\ res = Dual(F(2, 3), F(1, 3))

\* The scalar c promoted to the zero-tangent dual (c, 0).
Promote(c) == Dual(c, Zero)

\* A mixed operator agrees with the dual-with-dual operator on the promoted
\* scalar (whenever the latter's intermediate products stay in the window).
SameAsPromoted(p) == Rep(p) => res = p

\* C5: for real operands, a + c, a - c, a * c, a / c (c # 0) and c / a
\* (x # 0) equal the dual-with-dual operator applied to (c, 0); a +/- c keeps
\* the tangent, a * c and a / c scale value and tangent alike, and
\* c / a = (c/x, -c*dx / x^2).
C5_ScalarAsConstant ==
    (FinDual(self) /\ IsFin(scalar)) =>
        /\ Returned("add_f64") =>
              /\ SameAsPromoted(add(self, Promote(scalar)))
              /\ res.dx = self.dx
        /\ Returned("sub_f64") =>
              /\ SameAsPromoted(sub(self, Promote(scalar)))
              /\ res.dx = self.dx
        /\ Returned("mul_f64") =>
              /\ SameAsPromoted(mul(self, Promote(scalar)))
              /\ res = Dual(fmul(scalar, self.x), fmul(scalar, self.dx))
        /\ (Returned("div_f64") /\ ~IsZero(scalar)) =>
              /\ SameAsPromoted(div(self, Promote(scalar)))
              /\ res = Dual(fmul(fdiv(One, scalar), self.x),
                            fmul(fdiv(One, scalar), self.dx))
        /\ (Returned("f64_div") /\ ~IsZero(self.x)) =>
              /\ SameAsPromoted(div(Promote(scalar), self))
              /\ res = Dual(fdiv(scalar, self.x),
                            fdiv(fmul(fneg(scalar), self.dx),
                                 fmul(self.x, self.x)))

C5_Witness ==
    /\ Returned("f64_div")
    /\ self = Dual(F(2, 1), One)
    /\ scalar = F(5, 1)
    /\ res = Dual(F(5, 2), F(-5, 4))
    /\ Rep(div(Promote(scalar), self))

\* x^(n-1) for the mathematical integer n - 1 (no i32 wrap-around): below
\* i32::MIN it is x^n / x.
pow_pred(xv, e) ==
    IF e = I32_MIN THEN fdiv(fpowi(xv, e), xv) ELSE fpowi(xv, e - 1)

\* What C6 says powi(a, n) returns.
pow_rule(a, e) ==
    Dual(fpowi(a.x, e), fmul(fmul_i32(e, pow_pred(a.x, e)), a.dx))

\* C6: for every i32 exponent n (x # 0 when n <= 0), powi(a, n) returns value
\* x^n and tangent n * x^(n-1) * dx (wherever these are real numbers the
\* model represents); powi((3,1), 2) = (9,6) and powi((3,1), 0) = (1,0).
C6_PowerRule ==
    (Last = "powi" /\ FinDual(self) /\ (expn <= 0 => ~IsZero(self.x))
        /\ FinDual(pow_rule(self, expn))) =>
        /\ ~panicked
        /\ res = pow_rule(self, expn)
        /\ (self = Dual(F(3, 1), One) /\ expn = 2) => res = Dual(F(9, 1), F(6, 1))
        /\ (self = Dual(F(3, 1), One) /\ expn = 0) => res = Dual(One, Zero)

\* C7: ln (x > 0), sin, cos and tan return (f(x), f'(x) * dx) with
\* f' = 1/x, cos x, -sin x, tan^2 x + 1.
C7_ElementaryRules ==
    /\ (Returned("ln") /\ IsFin(self.x) /\ self.x.n > 0) =>
          res = Dual(fln(self.x), fmul(fdiv(One, self.x), self.dx))
    /\ Returned("sin") =>
          res = Dual(fsin(self.x), fmul(fcos(self.x), self.dx))
    /\ Returned("cos") =>
          res = Dual(fcos(self.x), fneg(fmul(fsin(self.x), self.dx)))
    /\ Returned("tan") =>
          res = Dual(ftan(self.x),
                     fmul(fadd(fmul(ftan(self.x), ftan(self.x)), One), self.dx))

C7_Witness ==
    /\ Returned("sin")
    /\ self = Dual(One, One)
    /\ res.dx = fcos(One)

\* After sin and sin again on the seed: value sin(sin(x)), and the tangent
\* of the first call, cos(x) * dx, multiplied by cos at the first call's value.
SinSinResult ==
    hist = <<"sin", "sin">> =>
        /\ res.x = fsin(fsin(u.x))
        /\ res.dx = fmul(fcos(fsin(u.x)), fmul(fcos(u.x), u.dx))
        /\ self = sin(u)

InDomain ==
    /\ FinDual(self) /\ FinDual(rhs) /\ IsFin(scalar)
    /\ Last = "ln" => self.x.n > 0
    /\ Last = "div" => ~IsZero(rhs.x)
    /\ Last = "div_f64" => ~IsZero(scalar)
    /\ Last = "f64_div" => ~IsZero(self.x)
    /\ (Last = "powi" /\ expn <= 0) => ~IsZero(self.x)

\* C9: when every dual operand of a call has tangent 0 (and the operands are
\* in the function's domain, the value a real number), the result has
\* tangent 0.
C9_ConstantsStayConstant ==
    (Last # "none" /\ ~panicked /\ InDomain /\ IsFin(res.x)
        /\ self.dx = Zero /\ rhs.dx = Zero) => res.dx = Zero

\* C10: two runs of the same calls on operands with equal values and
\* different tangents have equal values, equal to the plain-number run.
C10_ValueIndependentOfTangent == res.x = res2.x /\ res.x = plain

C10_Witness ==
    /\ Len(hist) >= 2
    /\ ~panicked
    /\ IsFin(res.x)
    /\ res.dx # res2.dx
    /\ u.dx # u2.dx

====
